---- MODULE Spec2Model ----
(***************************************************************************)
(* Closing lifecycle and weekly-budget reconciliation of the restaurant    *)
(* daily-closing backend (src/main.py).                                    *)
(*                                                                         *)
(* Money is held in minor units (1 currency unit = 100 minor units), dates *)
(* are day numbers with day 0 a Monday, names and PINs are sequences of    *)
(* one-character strings.  The record store keeps each table in creation   *)
(* order; a record id is the record's position in its table.               *)
(***************************************************************************)
EXTENDS Integers, Sequences, FiniteSets, TLC

VARIABLES closings, budgets, history, resp, lastV, cand, verdict, mail,
          inflight

vars == <<closings, budgets, history, resp, lastV, cand, verdict, mail,
          inflight>>

\* ------------------------------------------------------------------------
\* Bounds of the model
\* ------------------------------------------------------------------------
MaxClosings == 2
MaxBudgets == 2
MaxHist == 3
Today == 1

\* how far a budget's running figures may drift (minor units) when
\* reconciliations fail half-way and are repeated
MaxDrift == 15000

\* the longest store name that is normalized
MaxNameLen == 3

\* the number of requests that can be in flight at the same time
NumWorkers == 2

\* the longest PIN that is compared
MaxPinLen == 3

\* ------------------------------------------------------------------------
\* Generic helpers
\* ------------------------------------------------------------------------
Abs(x) == IF x < 0 THEN -x ELSE x

Max(a, b) == IF a >= b THEN a ELSE b

RECURSIVE SumSeq(_)
SumSeq(s) == IF s = <<>> THEN 0 ELSE Head(s) + SumSeq(Tail(s))

\* the least element of a non-empty set of record ids, 0 for the empty set
FirstOf(S) == IF S = {} THEN 0 ELSE CHOOSE i \in S : \A j \in S : i <= j

\* ------------------------------------------------------------------------
\* Store directory (the Stores table): record id -> display name
\* ------------------------------------------------------------------------
NoStore == "none"

Stores == {"S1", "S2"}

EmptyName == <<>>

StoreDisplayName(sid) ==
    CASE sid = "S1" -> <<"B", "o">>
      [] sid = "S2" -> <<"B", "o", "'", "s">>
      [] OTHER -> EmptyName

\* ------------------------------------------------------------------------
\* normalize_store_value: lower(), strip(), then drop the three apostrophes
\* ------------------------------------------------------------------------
LowerChar(c) ==
    CASE c = "B" -> "b"
      [] c = "O" -> "o"
      [] c = "S" -> "s"
      [] OTHER -> c

LowerStr(s) == [i \in 1..Len(s) |-> LowerChar(s[i])]

RECURSIVE LStrip(_)
LStrip(s) == IF s # <<>> /\ Head(s) = " " THEN LStrip(Tail(s)) ELSE s

RECURSIVE RStrip(_)
RStrip(s) ==
    IF s # <<>> /\ s[Len(s)] = " " THEN RStrip(SubSeq(s, 1, Len(s) - 1)) ELSE s

StripStr(s) == RStrip(LStrip(s))

\* "RSQ" and "LSQ" stand for the right and left single quotation marks
\* (U+2019, U+2018), "'" is the ASCII apostrophe.
IsApostrophe(c) == c \in {"'", "RSQ", "LSQ"}

NotApostrophe(c) == ~IsApostrophe(c)

\* the three chained replace(..., "") calls
RemoveApostrophes(s) == SelectSeq(s, NotApostrophe)

normalize_store_value(store) == RemoveApostrophes(StripStr(LowerStr(store)))

\* FIND(needle, haystack) of the record store's formula language, as a truth
\* value: needle occurs in haystack as a contiguous substring.
Find(needle, hay) ==
    \E i \in 1..(Len(hay) - Len(needle) + 1) :
        SubSeq(hay, i, i + Len(needle) - 1) = needle

\* ------------------------------------------------------------------------
\* Dates
\* ------------------------------------------------------------------------
Weekday(d) == d % 7

monday_of_week(d) == d - Weekday(d)

\* ------------------------------------------------------------------------
\* Money fields of a closing and the validation rules of upsert_closing
\* ------------------------------------------------------------------------
MoneyFields ==
    {"total_sales", "net_sales", "cash_payments", "card_payments",
     "digital_payments", "grab_payments", "voucher_payments",
     "bank_transfer_payments", "marketing_expenses", "actual_cash_counted",
     "cash_float", "kitchen_budget", "bar_budget", "non_food_budget",
     "staff_meal_budget"}

\* numeric_fields, in the order the handler walks them
NumericFields ==
    <<"total_sales", "net_sales", "cash_payments", "card_payments",
      "digital_payments", "grab_payments", "voucher_payments",
      "bank_transfer_payments", "marketing_expenses", "actual_cash_counted",
      "cash_float", "kitchen_budget", "bar_budget", "non_food_budget",
      "staff_meal_budget">>

\* A set of money fields is a record over MoneyFields plus the fields
\* `nulls`, the set of the money fields that hold None, and `nonfinite`,
\* the set of those that hold NaN or an infinity.
IsNone(p, k) == k \in p.nulls

IsNonFinite(p, k) == k \in p.nonfinite

\* what the loop over numeric_fields finds wrong with one field
FieldFault(p, k) ==
    IF IsNone(p, k) THEN "none"
    ELSE IF IsNonFinite(p, k) THEN "invalid_number"
    ELSE IF p[k] < 0 THEN "negative"
    ELSE "none"

\* the fault of the first faulty field ("none" when every field passes)
FirstFieldFault(p) ==
    LET bad == {i \in 1..Len(NumericFields) :
                   FieldFault(p, NumericFields[i]) # "none"}
    IN IF bad = {} THEN "none"
       ELSE FieldFault(p, NumericFields[CHOOSE i \in bad : \A j \in bad : i <= j])

\* `value or 0`
OrZero(p, k) == IF IsNone(p, k) THEN 0 ELSE p[k]

food_spend_from_fields(f) == OrZero(f, "kitchen_budget") + OrZero(f, "bar_budget")

payments_sum(p) ==
    OrZero(p, "cash_payments") + OrZero(p, "card_payments")
    + OrZero(p, "digital_payments") + OrZero(p, "grab_payments")
    + OrZero(p, "voucher_payments") + OrZero(p, "bank_transfer_payments")
    + OrZero(p, "marketing_expenses")

budget_total(p) ==
    OrZero(p, "kitchen_budget") + OrZero(p, "bar_budget")
    + OrZero(p, "non_food_budget") + OrZero(p, "staff_meal_budget")

\* one currency unit, in minor units
CurrencyUnit == 10 * 10

\* a payment rule that also refuses a difference of exactly one unit
PaymentsOff_Inclusive(p) ==
    /\ ~IsNone(p, "total_sales")
    /\ Abs(payments_sum(p) - p.total_sales) >= 1 * CurrencyUnit

\* the payment rule: abs(payments_sum - total_sales) > 1
PaymentsOff(p) ==
    /\ ~IsNone(p, "total_sales")
    /\ Abs(payments_sum(p) - p.total_sales) > 1 * CurrencyUnit

\* validation without the rule on net sales
Validate_NoNetRule(p) ==
    IF FirstFieldFault(p) # "none" THEN FirstFieldFault(p)
    ELSE IF PaymentsOff(p) THEN "payments_mismatch"
    ELSE IF ~IsNone(p, "net_sales") /\ budget_total(p) > p.net_sales
    THEN "budget_exceeds_net"
    ELSE "ok"

\* validation without the rule on the budget allocations
Validate_NoBudgetRule(p) ==
    IF FirstFieldFault(p) # "none" THEN FirstFieldFault(p)
    ELSE IF /\ ~IsNone(p, "total_sales") /\ ~IsNone(p, "net_sales")
            /\ p.net_sales > p.total_sales
    THEN "net_exceeds_total"
    ELSE IF PaymentsOff(p) THEN "payments_mismatch"
    ELSE "ok"

\* The first failing rule, in the order the handler checks them.
Validate(p) ==
    IF FirstFieldFault(p) # "none" THEN FirstFieldFault(p)
    ELSE IF /\ ~IsNone(p, "total_sales") /\ ~IsNone(p, "net_sales")
            /\ p.net_sales > p.total_sales
    THEN "net_exceeds_total"
    ELSE IF PaymentsOff(p) THEN "payments_mismatch"
    ELSE IF ~IsNone(p, "net_sales") /\ budget_total(p) > p.net_sales
    THEN "budget_exceeds_net"
    ELSE "ok"

\* ------------------------------------------------------------------------
\* Inputs of the model
\* ------------------------------------------------------------------------
PaymentFields ==
    <<"cash_payments", "card_payments", "digital_payments", "grab_payments",
      "voucher_payments", "bank_transfer_payments", "marketing_expenses">>

ZeroMoney ==
    [k \in MoneyFields \cup {"nulls", "nonfinite"} |->
        IF k \in {"nulls", "nonfinite"} THEN {} ELSE 0]

\* The money fields of a closing with total sales ts and net sales ns, paid
\* as `cash` in cash and `card` by card, with the given kitchen and bar
\* budgets.
Closing(ts, ns, cash, card, kitchen, bar) ==
    [ZeroMoney EXCEPT !.total_sales = ts, !.net_sales = ns,
                      !.cash_payments = cash, !.card_payments = card,
                      !.kitchen_budget = kitchen, !.bar_budget = bar]

ManagerPin == <<"1", "2">>

\* ------------------------------------------------------------------------
\* State
\* ------------------------------------------------------------------------
\* closings[i]: the Daily Closings row with record id i
\*   store        linked Store record ids ("Store")
\*   date         "Date"
\*   m            the money fields
\*   lock         "Lock Status"
\*   verified     "Verified Status" ("" while the field is unset)
\*   verified_at  whether "Verified At" holds a timestamp
\*   anchor       "Food Cost Deducted" of the closing
\*   unlocked_by  "Unlocked By" ("" while unset)
\* budgets[i]: the Weekly Budgets row with record id i
\* history: the Daily Closing History table
\* resp: the response to the latest request
\* lastV[i]: history variable about the latest verification of closing i
\*   spend      the food spend it was verified with, while its status has
\*              stayed Verified since (-1 otherwise)
\*   untouched  whether the row is as that verification left it
\*   before     <<r>> when that verification took a closing that was not
\*              Verified to Verified while its own weekly budget was Locked
\*              with remaining budget r, and no budget row has changed
\*              since; <<>> otherwise
\* cand, verdict: a candidate closing and the verdict of its validation
\* inflight: the requests that are between two calls to the record store,
\*           each with what it has read so far

Init ==
    /\ closings = <<>>
    /\ budgets = <<>>
    /\ history = <<>>
    /\ resp = [op |-> "init", code |-> 0, body |-> "none"]
    /\ lastV = <<>>
    /\ cand = ZeroMoney
    /\ verdict = "none"
    /\ mail = "none"
    /\ inflight = <<>>

NeverVerified == [spend |-> -1, untouched |-> FALSE, before |-> <<>>]

\* lastV once a weekly budget row has been written
Forget(lv) == [i \in DOMAIN lv |-> [lv[i] EXCEPT !.before = <<>>]]

Response(op, code, rid, body) == [op |-> op, code |-> code, body |-> body]

\* _log_history: one more row in the history table
HistoryEntry(action, rid, lock) ==
    [action |-> action, record_id |-> rid, lock_status |-> lock]

\* a log that keeps one row per record and writes over it
_log_history_Overwrites(action, rid, lock) ==
    IF \E n \in DOMAIN history : history[n].record_id = rid
    THEN LET n == CHOOSE m \in DOMAIN history : history[m].record_id = rid
         IN  [history EXCEPT ![n] = HistoryEntry(action, rid, lock)]
    ELSE Append(history, HistoryEntry(action, rid, lock))

_log_history(action, rid, lock) == Append(history, HistoryEntry(action, rid, lock))

\* "Store Normalized" of a closing row: computed by the record store from
\* the linked store's display name.
StoreNormalizedField(c) ==
    IF c.store = {} THEN EmptyName
    ELSE LowerStr(StoreDisplayName(CHOOSE s \in c.store : TRUE))

\* ------------------------------------------------------------------------
\* upsert_closing
\* ------------------------------------------------------------------------
\* the name the handler works with: the payload's, else the directory's
ResolvedStoreName(sid, name) ==
    IF name = EmptyName /\ sid # NoStore THEN StoreDisplayName(sid) ELSE name

\* one candidate row matches: by linked store id, else by normalized name
MatchesCandidate(c, sid, store_name) ==
    \/ sid # NoStore /\ sid \in c.store
    \/ normalize_store_value(StoreNormalizedField(c))
          = normalize_store_value(store_name)

\* the existing record the handler selects (0 when none): the first row of
\* that date, in table order, that matches
FindExisting(sid, store_name, d) ==
    FirstOf({i \in 1..Len(closings) :
                /\ closings[i].date = d
                /\ MatchesCandidate(closings[i], sid, store_name)})

\* a lock check that only guards verified closings
UpsertLocked_OnlyVerified(c) ==
    c.lock \in {"Locked", "Verified"} /\ c.verified = "Verified"

\* the lock check on the existing record
UpsertLocked(c) ==
    c.lock \in {"Locked", "Verified"} /\ c.verified # "Needs Update"

\* an update that forgets the reset of the verification state
UpdatedClosing_NoReset(c, sid, d, p) ==
    [c EXCEPT !.store = {sid}, !.date = d, !.m = p, !.lock = "Locked"]

\* the row after an update of an existing record
UpdatedClosing(c, sid, d, p) ==
    LET base == [c EXCEPT !.store = {sid}, !.date = d, !.m = p,
                          !.lock = "Locked"]
    IN IF c.verified = "Needs Update"
       THEN [base EXCEPT !.verified = "Pending", !.verified_at = FALSE,
                         !.anchor = 0]
       ELSE base

\* the row of a newly created record
CreatedClosing(sid, d, p) ==
    [store |-> {sid}, date |-> d, m |-> p, lock |-> "Locked",
     verified |-> "", verified_at |-> FALSE, anchor |-> 0,
     unlocked_by |-> ""]

Unchanged_data == UNCHANGED <<closings, budgets, history, lastV, cand, verdict>>

\* email_reason of a submission that found `existing` (0 when none)
EmailReason(existing) ==
    IF existing = 0 THEN "first_submission"
    ELSE IF closings[existing].verified = "Needs Update"
    THEN "resubmission_after_update"
    ELSE "none"

\* a notification whose failure reaches the caller
send_closing_submission_email_Raising(delivery_fails) ==
    IF delivery_fails THEN "raised" ELSE "returned"

\* send_closing_submission_email, as its caller sees it: the function
\* catches whatever the delivery raises, logs it and returns
send_closing_submission_email(delivery_fails) == "returned"

\* the answer after the notification: an exception that reached the
\* handler would be turned into a 500 by its last except clause
AfterEmail(emailed, answer) ==
    IF emailed = "raised" THEN Response(answer.op, 500, 0, "error") ELSE answer

\* the handler from its validation on, for the resolved store name and
\* the existing record it selected
upsert_closing_found(sid, store_name, existing, d, p, delivery_fails) ==
    LET emailed == IF EmailReason(existing) = "none" THEN "returned"
                   ELSE send_closing_submission_email(delivery_fails)
    IN
    IF sid = NoStore /\ store_name = EmptyName
    THEN /\ resp' = Response("upsert", 400, 0, "error")
         /\ Unchanged_data
    ELSE IF Validate(p) # "ok"
    THEN /\ resp' = Response("upsert", 400, 0, "error")
         /\ Unchanged_data
    ELSE IF existing # 0
    THEN IF UpsertLocked(closings[existing])
         THEN /\ resp' = Response("upsert", 403, existing, "error")
              /\ Unchanged_data
         ELSE /\ Len(history) < MaxHist
              /\ closings' = [closings EXCEPT ![existing] =
                                  UpdatedClosing(closings[existing], sid, d, p)]
              /\ history' = _log_history("Updated", existing, "Locked")
              /\ resp' = AfterEmail(emailed,
                            Response("upsert", 200, existing, "updated_locked"))
              /\ lastV' = [lastV EXCEPT ![existing] =
                              [NeverVerified EXCEPT !.spend =
                                  IF closings[existing].verified = "Verified"
                                  THEN lastV[existing].spend ELSE -1]]
              /\ UNCHANGED <<budgets, cand, verdict>>
    ELSE /\ Len(closings) < MaxClosings
         /\ Len(history) < MaxHist
         /\ closings' = Append(closings, CreatedClosing(sid, d, p))
         /\ lastV' = Append(lastV, NeverVerified)
         /\ history' = _log_history("Created", Len(closings) + 1, "Locked")
         /\ resp' = AfterEmail(emailed,
                       Response("upsert", 200, Len(closings) + 1, "created_locked"))
         /\ UNCHANGED <<budgets, cand, verdict>>

\* what the handler does to the tables and what it answers, given whether
\* the delivery of its notification fails
upsert_closing_core(sid, name, d, p, delivery_fails) ==
    LET store_name == ResolvedStoreName(sid, name)
        existing == FindExisting(sid, store_name, d)
    IN upsert_closing_found(sid, store_name, existing, d, p, delivery_fails)

\* whether the submission gets as far as its notification: it has an
\* email reason and was not refused before its write
SubmissionEmailed(existing) ==
    /\ EmailReason(existing) # "none"
    /\ resp'.code \notin {400, 403}

\* the handler, and the mail provider's record of the last delivery
upsert_closing_with(sid, name, d, p, delivery_fails) ==
    LET store_name == ResolvedStoreName(sid, name)
        existing == FindExisting(sid, store_name, d)
    IN /\ upsert_closing_found(sid, store_name, existing, d, p, delivery_fails)
       /\ UNCHANGED inflight
       /\ mail' = IF SubmissionEmailed(existing)
                  THEN (IF delivery_fails THEN "failed" ELSE "sent")
                  ELSE mail

upsert_closing(sid, name, d, p) == upsert_closing_with(sid, name, d, p, FALSE)

\* requests with (store_id, store, business_date) in Keys, fields in Pays
UpsertClosingOn(Keys, Pays) ==
    \E k \in Keys, p \in Pays : upsert_closing(k[1], k[2], k[3], p)

\* ------------------------------------------------------------------------
\* unlock_closing
\* ------------------------------------------------------------------------
\* ord() of the characters a PIN is made of
Ord(c) ==
    CASE c = "1" -> 49
      [] c = "2" -> 50
      [] c = "3" -> 51
      [] OTHER -> 32

RECURSIVE BitXor(_, _)
BitXor(a, b) ==
    IF a = 0 /\ b = 0 THEN 0
    ELSE ((((a % 2) + (b % 2)) % 2)) + 2 * BitXor(a \div 2, b \div 2)

RECURSIVE BitOr(_, _)
BitOr(a, b) ==
    IF a = 0 /\ b = 0 THEN 0
    ELSE (IF (a % 2) = 1 \/ (b % 2) = 1 THEN 1 ELSE 0)
         + 2 * BitOr(a \div 2, b \div 2)

RECURSIVE OrOfXors(_, _, _)
\* result |= ord(x) ^ ord(y) over the zipped characters, from `result`
OrOfXors(a, b, result) ==
    IF a = <<>> \/ b = <<>> THEN result
    ELSE OrOfXors(Tail(a), Tail(b),
                  BitOr(result, BitXor(Ord(Head(a)), Ord(Head(b)))))

RECURSIVE LoopIterations_EarlyExit(_, _)
\* a loop that leaves at the first pair of characters that differ
LoopIterations_EarlyExit(a, b) ==
    IF a = <<>> \/ b = <<>> THEN 0
    ELSE IF Head(a) # Head(b) THEN 1
    ELSE 1 + LoopIterations_EarlyExit(Tail(a), Tail(b))

RECURSIVE LoopIterations(_, _)
\* how many times the body of `for x, y in zip(a, b)` runs: the loop has
\* no break and no return
LoopIterations(a, b) ==
    IF a = <<>> \/ b = <<>> THEN 0
    ELSE 1 + LoopIterations(Tail(a), Tail(b))

\* the character positions a call of _constant_time_equal examines: none
\* when the lengths differ, for the function returns before its loop
PositionsCompared(a, b) ==
    IF Len(a) # Len(b) THEN 0 ELSE LoopIterations(a, b)

\* a comparison that stops at the lengths
_constant_time_equal_LengthOnly(a, b) == Len(a) = Len(b)

_constant_time_equal(a, b) ==
    IF Len(a) # Len(b) THEN FALSE ELSE OrOfXors(a, b, 0) = 0

\* an unlock that refuses a closing that is not locked
unlock_closing_OnlyLocked(rid, pin) ==
    IF rid <= Len(closings)
       /\ _constant_time_equal(StripStr(pin), StripStr(ManagerPin))
       /\ closings[rid].lock = "Locked"
    THEN /\ Len(history) < MaxHist
         /\ closings' = [closings EXCEPT ![rid].lock = "Unlocked",
                                         ![rid].unlocked_by = "Manager PIN"]
         /\ history' = _log_history("Unlocked", rid, "Unlocked")
         /\ resp' = Response("unlock", 200, rid, "record")
         /\ lastV' = [lastV EXCEPT ![rid].untouched = FALSE,
                                   ![rid].before = <<>>]
         /\ UNCHANGED <<budgets, cand, verdict>>
    ELSE /\ resp' = Response("unlock", 409, rid, "error")
         /\ Unchanged_data

\* an unlock that also sends the closing back for verification
unlock_closing_ResetsStatus(rid, pin) ==
    IF rid > Len(closings)
    THEN /\ resp' = Response("unlock", 500, 0, "error")
         /\ Unchanged_data
    ELSE IF ~_constant_time_equal(StripStr(pin), StripStr(ManagerPin))
    THEN /\ resp' = Response("unlock", 401, rid, "error")
         /\ Unchanged_data
    ELSE /\ Len(history) < MaxHist
         /\ closings' = [closings EXCEPT ![rid].lock = "Unlocked",
                                         ![rid].unlocked_by = "Manager PIN",
                                         ![rid].verified = "Pending",
                                         ![rid].verified_at = FALSE]
         /\ history' = _log_history("Unlocked", rid, "Unlocked")
         /\ resp' = Response("unlock", 200, rid, "record")
         /\ lastV' = [lastV EXCEPT ![rid].untouched = FALSE,
                                   ![rid].before = <<>>]
         /\ UNCHANGED <<budgets, cand, verdict>>

unlock_closing(rid, pin) ==
    IF rid > Len(closings)
    THEN /\ resp' = Response("unlock", 500, 0, "error")
         /\ Unchanged_data
    ELSE IF ~_constant_time_equal(StripStr(pin), StripStr(ManagerPin))
    THEN /\ resp' = Response("unlock", 401, rid, "error")
         /\ Unchanged_data
    ELSE /\ Len(history) < MaxHist
         /\ closings' = [closings EXCEPT ![rid].lock = "Unlocked",
                                         ![rid].unlocked_by = "Manager PIN"]
         /\ history' = _log_history("Unlocked", rid, "Unlocked")
         /\ resp' = Response("unlock", 200, rid, "record")
         /\ lastV' = [lastV EXCEPT ![rid].untouched = FALSE,
                                   ![rid].before = <<>>]
         /\ UNCHANGED <<budgets, cand, verdict>>

UnlockClosingOn(Rids, Pins) ==
    /\ UNCHANGED <<mail, inflight>>
    /\ \E rid \in Rids, pin \in Pins : unlock_closing(rid, pin)

\* ------------------------------------------------------------------------
\* patch_closing
\* ------------------------------------------------------------------------
\* A patch is a set of field names to overwrite.  The handler's first loop
\* reads FORMULA_FIELDS, a name main.py never defines, so every non-empty
\* patch ends in the handler's generic error branch before any read or
\* write of the record store.
patch_closing(rid, updates) ==
    /\ resp' = IF updates = {}
               THEN Response("patch", 400, 0, "error")
               ELSE Response("patch", 500, 0, "error")
    /\ Unchanged_data

PatchClosingOn(Rids, Patches) ==
    /\ UNCHANGED <<mail, inflight>>
    /\ \E rid \in Rids, u \in Patches : patch_closing(rid, u)

\* ------------------------------------------------------------------------
\* verify_closing
\* ------------------------------------------------------------------------
\* ARRAYJOIN({Store}) of a weekly budget row: the display names of the
\* linked stores
BudgetStoreJoin(b) == StoreDisplayName(b.store)

\* get_locked_weekly_budget_record: the id of the first Locked budget row of
\* the closing's week whose joined store names contain the closing's store
\* display name (0 when none, or when the closing has no linked store)
get_locked_weekly_budget_record(fields) ==
    IF fields.store = {} THEN 0
    ELSE LET store_id == CHOOSE s \in fields.store : TRUE
             store_name == StoreDisplayName(store_id)
             week_start == monday_of_week(fields.date)
         IN FirstOf({i \in 1..Len(budgets) :
                        /\ Find(store_name, BudgetStoreJoin(budgets[i]))
                        /\ budgets[i].week_start = week_start
                        /\ budgets[i].status = "Locked"})

\* the Locked weekly budget row of the closing's own store and week (0 when
\* there is none)
OwnBudget(c) ==
    FirstOf({i \in 1..Len(budgets) :
                /\ budgets[i].store \in c.store
                /\ budgets[i].week_start = monday_of_week(c.date)
                /\ budgets[i].status = "Locked"})

\* status fields that leave the lock alone unless the status is Verified
VerifiedFields_KeepsLock(c, status) ==
    IF status = "Verified"
    THEN [c EXCEPT !.verified = status, !.verified_at = TRUE,
                   !.lock = "Locked"]
    ELSE [c EXCEPT !.verified = status, !.verified_at = FALSE]

\* the status fields every verification writes
VerifiedFields(c, status) ==
    IF status = "Verified"
    THEN [c EXCEPT !.verified = status, !.verified_at = TRUE,
                   !.lock = "Locked"]
    ELSE [c EXCEPT !.verified = status, !.verified_at = FALSE,
                   !.lock = "Unlocked"]

\* a delta that also takes the weekly budget back to a draft
ApplyDelta_Reopens(b, delta) ==
    [b EXCEPT !.remaining = b.remaining - delta,
              !.deducted = b.deducted + delta,
              !.status = "Draft"]

\* the budget row after a delta of a verification
ApplyDelta(b, delta) ==
    [b EXCEPT !.remaining = b.remaining - delta,
              !.deducted = b.deducted + delta]

\* the budget row after the reversal of a closing's deduction
ApplyReversal(b, amount) ==
    [b EXCEPT !.remaining = b.remaining + amount,
              !.deducted = Max(0, b.deducted - amount)]

\* send_closing_verification_email, as its caller sees it: the function
\* catches whatever the delivery raises, logs it and returns
send_closing_verification_email(delivery_fails) == "returned"

\* the steps of the reconciliation that the record store may fail: the
\* lookup of the weekly budget, the write of the weekly budget, the write
\* of the closing's anchor
Faults == {"none", "budget_read", "budget_write", "anchor_write"}

\* a reconciliation whose failed budget write takes the verification back
ReconciliationFailed_RollsBack(c, before_fields) == before_fields

\* the closing row after a reconciliation that failed: the inner except
\* clause logs the error, the status written before stays
ReconciliationFailed(c, before_fields) == c

\* what the handler does to the tables and what it answers, given the step
\* of the reconciliation that fails and whether the delivery of the
\* notification fails
verify_closing_core(rid, status, fault, delivery_fails) ==
    IF rid > Len(closings)
    THEN /\ resp' = Response("verify", 500, 0, "error")
         /\ Unchanged_data
    ELSE
    LET before_fields == closings[rid]
        prev_status == before_fields.verified
        prev_food_deducted == before_fields.anchor
        fields == VerifiedFields(before_fields, status)
        current_food_deducted == fields.anchor
        new_food_spend == food_spend_from_fields(fields.m)
        delta == new_food_spend - prev_food_deducted
        failed == ReconciliationFailed(fields, before_fields)
        verified == AfterEmail(send_closing_verification_email(delivery_fails),
                               Response("verify", 200, rid, status))
    IN
    /\ UNCHANGED <<history, cand, verdict>>
    /\ IF status = "Verified"
       THEN IF fault = "budget_read"
            THEN /\ closings' = [closings EXCEPT ![rid] = failed]
                 /\ budgets' = budgets
                 /\ resp' = verified
            ELSE
            LET bid == get_locked_weekly_budget_record(fields) IN
            IF bid = 0
            THEN /\ closings' = [closings EXCEPT ![rid] = fields]
                 /\ budgets' = budgets
                 /\ resp' = Response("verify", 200, rid, "null")
            ELSE IF delta = 0
            THEN /\ closings' = [closings EXCEPT ![rid] = fields]
                 /\ budgets' = budgets
                 /\ resp' = Response("verify", 200, rid, "null")
            ELSE IF fault = "budget_write"
            THEN /\ closings' = [closings EXCEPT ![rid] = failed]
                 /\ budgets' = budgets
                 /\ resp' = verified
            ELSE /\ budgets' = [budgets EXCEPT ![bid] = ApplyDelta(budgets[bid], delta)]
                 /\ closings' = [closings EXCEPT ![rid] =
                                     IF fault = "anchor_write" THEN failed
                                     ELSE [fields EXCEPT !.anchor = new_food_spend]]
                 /\ resp' = verified
       ELSE IF prev_status = "Verified" /\ current_food_deducted > 0
            THEN IF fault = "budget_read"
                 THEN /\ closings' = [closings EXCEPT ![rid] = failed]
                      /\ budgets' = budgets
                      /\ resp' = Response("verify", 200, rid, status)
                 ELSE
                 LET bid == get_locked_weekly_budget_record(before_fields) IN
                 IF bid # 0 /\ fault = "budget_write"
                 THEN /\ closings' = [closings EXCEPT ![rid] = failed]
                      /\ budgets' = budgets
                      /\ resp' = Response("verify", 200, rid, status)
                 ELSE /\ budgets' = IF bid # 0
                                    THEN [budgets EXCEPT ![bid] =
                                             ApplyReversal(budgets[bid], current_food_deducted)]
                                    ELSE budgets
                      /\ closings' = [closings EXCEPT ![rid] =
                                          IF fault = "anchor_write" THEN failed
                                          ELSE [fields EXCEPT !.anchor = 0]]
                      /\ resp' = Response("verify", 200, rid, status)
            ELSE /\ closings' = [closings EXCEPT ![rid] = fields]
                 /\ budgets' = budgets
                 /\ resp' = Response("verify", 200, rid, status)
    /\ lastV' = [(IF budgets' = budgets THEN lastV ELSE Forget(lastV))
                   EXCEPT ![rid] =
                    IF status # "Verified" THEN NeverVerified
                    ELSE [spend |-> new_food_spend, untouched |-> TRUE,
                          before |->
                              IF /\ prev_status # "Verified"
                                 /\ new_food_spend > 0
                                 /\ OwnBudget(before_fields) # 0
                              THEN <<budgets[OwnBudget(before_fields)].remaining>>
                              ELSE <<>>]]

\* whether the verification gets as far as its notification: the two
\* bare returns of the reconciliation leave the handler before it
VerificationEmailed(rid, status) ==
    /\ rid <= Len(closings)
    /\ status = "Verified"
    /\ resp'.body # "null"

\* the handler, and the mail provider's record of the last delivery
verify_closing_with(rid, status, fault, delivery_fails) ==
    /\ verify_closing_core(rid, status, fault, delivery_fails)
    /\ UNCHANGED inflight
    /\ mail' = IF VerificationEmailed(rid, status)
               THEN (IF delivery_fails THEN "failed" ELSE "sent")
               ELSE mail

verify_closing(rid, status) == verify_closing_with(rid, status, "none", FALSE)

VerifyClosingOn(Rids, Sts) ==
    \E rid \in Rids, status \in Sts : verify_closing(rid, status)

\* ------------------------------------------------------------------------
\* upsert_weekly_budget
\* ------------------------------------------------------------------------
BudgetMatches(sid, ws) ==
    {i \in 1..Len(budgets) :
        budgets[i].store = sid /\ budgets[i].week_start = ws}

CreatedBudget(sid, ws, kitchen, bar) ==
    [store |-> sid, week_start |-> ws, kitchen |-> kitchen, bar |-> bar,
     amount |-> kitchen + bar, original |-> kitchen + bar, deducted |-> 0,
     remaining |-> kitchen + bar, status |-> "Draft", locked_by |-> ""]

EditedBudget(b, sid, kitchen, bar) ==
    [b EXCEPT !.store = sid, !.kitchen = kitchen, !.bar = bar,
              !.amount = kitchen + bar,
              !.remaining = Max(0, (kitchen + bar) - b.deducted)]

Unchanged_closings == UNCHANGED <<closings, history, cand, verdict>>

\* an edit check that lets every budget through
BudgetIsLocked_Never(b) == FALSE

\* fields.get("Status") == "Locked"
BudgetIsLocked(b) == b.status = "Locked"

upsert_weekly_budget(sid, ws, kitchen, bar) ==
    LET matches == BudgetMatches(sid, ws) IN
    /\ Unchanged_closings
    /\ IF sid = NoStore
       THEN resp' = Response("budget_upsert", 400, 0, "error") /\ budgets' = budgets
       ELSE IF Weekday(ws) # 0
       THEN resp' = Response("budget_upsert", 400, 0, "error") /\ budgets' = budgets
       ELSE IF ws < monday_of_week(Today)
       THEN resp' = Response("budget_upsert", 403, 0, "error") /\ budgets' = budgets
       ELSE IF Cardinality(matches) > 1
       THEN resp' = Response("budget_upsert", 409, 0, "error") /\ budgets' = budgets
       ELSE IF matches = {}
       THEN /\ Len(budgets) < MaxBudgets
            /\ budgets' = Append(budgets, CreatedBudget(sid, ws, kitchen, bar))
            /\ resp' = Response("budget_upsert", 200, Len(budgets) + 1, "created")
       ELSE IF BudgetIsLocked(budgets[FirstOf(matches)])
       THEN resp' = Response("budget_upsert", 403, FirstOf(matches), "error")
            /\ budgets' = budgets
       ELSE /\ budgets' = [budgets EXCEPT ![FirstOf(matches)] =
                              EditedBudget(budgets[FirstOf(matches)], sid, kitchen, bar)]
            /\ resp' = Response("budget_upsert", 200, FirstOf(matches), "updated")
    /\ lastV' = IF budgets' = budgets THEN lastV ELSE Forget(lastV)

UpsertWeeklyBudgetOn(Sids, Weeks, Amounts) ==
    /\ UNCHANGED <<mail, inflight>>
    /\ \E sid \in Sids, ws \in Weeks, kb \in Amounts :
        upsert_weekly_budget(sid, ws, kb[1], kb[2])

\* ------------------------------------------------------------------------
\* lock_weekly_budget
\* ------------------------------------------------------------------------
InWeek(d, ws) == ws <= d /\ d <= ws + 6

\* the closings the recompute sums.  The primary query filters on the
\* {Store ID} column of the Daily Closings table, which no handler writes;
\* when that query raises (the column is missing, or the record store
\* fails) the fallback query filters on FIND(display name, ARRAYJOIN({Store})).
LockClosingsPrimary(sid, ws) ==
    {i \in 1..Len(closings) :
        /\ closings[i].verified = "Verified"
        /\ InWeek(closings[i].date, ws)
        /\ sid \in closings[i].store}

LockClosingsFallback(store_name, ws) ==
    {i \in 1..Len(closings) :
        /\ closings[i].verified = "Verified"
        /\ InWeek(closings[i].date, ws)
        /\ closings[i].store # {}
        /\ Find(store_name,
                StoreDisplayName(CHOOSE s \in closings[i].store : TRUE))}

RECURSIVE SpendOf(_)
SpendOf(ids) ==
    IF ids = {} THEN 0
    ELSE LET i == CHOOSE x \in ids : TRUE
         IN food_spend_from_fields(closings[i].m) + SpendOf(ids \ {i})

LockedBudget(b, kitchen, bar, spent) ==
    [b EXCEPT !.kitchen = kitchen, !.bar = bar, !.amount = kitchen + bar,
              !.deducted = spent,
              !.remaining = Max(0, (kitchen + bar) - spent),
              !.status = "Locked", !.locked_by = "manager",
              !.original = IF b.original = 0 THEN kitchen + bar ELSE b.original]

\* a lock that takes no budget for locked already
AlreadyLocked_Never(b) == FALSE

\* (fields.get("Status") or "").lower() == "locked"
AlreadyLocked(b) == b.status = "Locked"

\* the answer for a budget that is locked already: the stored numbers
AlreadyLockedResponse(b) ==
    [op |-> "budget_lock", code |-> 200, body |-> "already_locked",
     weekly_budget |-> b.amount, remaining_budget |-> b.remaining,
     food_cost_deducted |-> b.deducted]

\* budget_id 0 and store NoStore stand for an absent field; override <<>>
\* for a payload without kitchen_budget and bar_budget; primary_fails says
\* whether the primary closings query raises
lock_weekly_budget(budget_id, sid, ws, override, primary_fails) ==
    LET found == IF budget_id # 0
                 THEN (IF budget_id <= Len(budgets) THEN budget_id ELSE 0)
                 ELSE FirstOf(BudgetMatches(sid, ws))
        kitchen == IF override = <<>> THEN budgets[found].kitchen ELSE override[1]
        bar == IF override = <<>> THEN budgets[found].bar ELSE override[2]
        store_name == IF sid = NoStore THEN EmptyName ELSE StoreDisplayName(sid)
        spent == IF primary_fails
                 THEN SpendOf(LockClosingsFallback(store_name, ws))
                 ELSE SpendOf(LockClosingsPrimary(sid, ws))
    IN
    /\ Unchanged_closings
    /\ IF budget_id = 0 /\ sid = NoStore
       THEN resp' = Response("budget_lock", 400, 0, "error") /\ budgets' = budgets
       ELSE IF Weekday(ws) # 0
       THEN resp' = Response("budget_lock", 400, 0, "error") /\ budgets' = budgets
       ELSE IF found = 0
       THEN resp' = Response("budget_lock", 404, 0, "error") /\ budgets' = budgets
       ELSE IF AlreadyLocked(budgets[found])
       THEN resp' = AlreadyLockedResponse(budgets[found])
            /\ budgets' = budgets
       ELSE IF primary_fails /\ store_name = EmptyName
       THEN resp' = Response("budget_lock", 400, found, "error")
            /\ budgets' = budgets
       ELSE /\ budgets' = [budgets EXCEPT ![found] =
                              LockedBudget(budgets[found], kitchen, bar, spent)]
            /\ resp' = Response("budget_lock", 200, found, "locked")
    /\ lastV' = IF budgets' = budgets THEN lastV ELSE Forget(lastV)

LockWeeklyBudgetOn(Bids, Sids, Weeks, Overrides, Fails) ==
    /\ UNCHANGED <<mail, inflight>>
    /\ \E budget_id \in Bids, sid \in Sids, ws \in Weeks,
       override \in Overrides, primary_fails \in Fails :
        lock_weekly_budget(budget_id, sid, ws, override, primary_fails)

\* ------------------------------------------------------------------------
\* Requests of the model.  Money in minor units: 200.00 of sales, kitchen
\* and bar budgets of 60.00 + 40.00 and of 90.00 + 40.00.
\* ------------------------------------------------------------------------
PayloadA == Closing(20000, 20000, 15000, 4900, 6000, 4000)

PayloadB == Closing(20000, 20000, 20000, 0, 9000, 4000)

PayloadOff == Closing(20000, 20000, 20101, 0, 6000, 4000)

ValidPayloads == {PayloadA, PayloadB}

Payloads == ValidPayloads \cup {PayloadOff}

\* (store_id, store, business_date) of a request; day 0 is a Monday
KeyInputs ==
    {<<"S1", EmptyName, 0>>, <<"S2", EmptyName, 0>>, <<NoStore, EmptyName, 0>>}

PinInputs == {<<"1", "2">>, <<"1">>, <<"1", "3">>}

PatchInputs == {{}, {"kitchen_budget"}}

Statuses == {"Verified", "Needs Update"}

DraftAmount == <<10000, 2000>>

LockOverride == <<20000, 5000>>

\* ------------------------------------------------------------------------
\* Spec: the closing lifecycle, with one store's weekly budget
\* ------------------------------------------------------------------------
UpsertClosing == UpsertClosingOn(KeyInputs, Payloads)

UnlockClosing == UnlockClosingOn(1..MaxClosings, PinInputs)

PatchClosing == PatchClosingOn(1..MaxClosings, PatchInputs)

VerifyClosing == VerifyClosingOn(1..MaxClosings, Statuses)

UpsertWeeklyBudget == UpsertWeeklyBudgetOn({"S1"}, {0}, {DraftAmount})

LockWeeklyBudget == LockWeeklyBudgetOn({0}, {"S1"}, {0}, {<<>>}, {FALSE})

Next ==
    \/ UpsertClosing
    \/ UnlockClosing
    \/ PatchClosing
    \/ VerifyClosing
    \/ UpsertWeeklyBudget
    \/ LockWeeklyBudget

Spec == Init /\ [][Next]_vars

\* ------------------------------------------------------------------------
\* SpecBudget: reconciliation of two stores' weekly budgets against the
\* closings, with well-formed closing requests
\* ------------------------------------------------------------------------
BudgetKeyInputs == {<<"S1", EmptyName, 0>>, <<"S2", EmptyName, 0>>}

ExistingClosings == 1..Len(closings)

NextBudget ==
    \/ UpsertClosingOn(BudgetKeyInputs, ValidPayloads)
    \/ UnlockClosingOn(ExistingClosings, {ManagerPin})
    \/ PatchClosingOn(ExistingClosings, {{"kitchen_budget"}})
    \/ VerifyClosingOn(ExistingClosings, Statuses)
    \/ UpsertWeeklyBudgetOn(Stores, {0}, {DraftAmount})
    \/ LockWeeklyBudgetOn({0}, Stores, {0}, {<<>>}, {FALSE})

SpecBudget == Init /\ [][NextBudget]_vars

\* ------------------------------------------------------------------------
\* SpecLock: the recompute of the weekly budget lock, over closings of the
\* budget's week (its Monday and its Sunday), of the next week and of
\* another store, with payload overrides and with a closings query that
\* may raise
\* ------------------------------------------------------------------------
LockKeyInputs ==
    {<<"S1", EmptyName, 0>>, <<"S1", EmptyName, 6>>, <<"S1", EmptyName, 7>>,
     <<"S2", EmptyName, 0>>}

NextLock ==
    \/ UpsertClosingOn(LockKeyInputs, ValidPayloads)
    \/ UnlockClosingOn(ExistingClosings, {ManagerPin})
    \/ PatchClosingOn(ExistingClosings, {{"kitchen_budget"}})
    \/ VerifyClosingOn(ExistingClosings, Statuses)
    \/ UpsertWeeklyBudgetOn({"S1"}, {0}, {DraftAmount})
    \/ LockWeeklyBudgetOn({0}, {"S1"}, {0}, {<<>>, LockOverride}, BOOLEAN)

SpecLock == Init /\ [][NextLock]_vars

\* ------------------------------------------------------------------------
\* SpecValidate: the validation rules applied to candidate closings whose
\* payments differ from the total sales by up to 1.01, for small and large
\* totals, with the payments held by each payment field in turn
\* ------------------------------------------------------------------------
CandidateTotals == {0, 10000, 1000000}

CandidateDiffs == {-101, -100, -1, 0, 1, 100, 101}

\* total sales ts, net sales ns, the payments ts + diff in payment field f
Candidate(ts, ns, diff, f, nulls) ==
    [ZeroMoney EXCEPT !.total_sales = ts, !.net_sales = ns,
                      ![f] = ts + diff, !.nulls = nulls]

\* ... and split over cash and payment field f
SplitCandidate(ts, ns, diff, f, nulls) ==
    [ZeroMoney EXCEPT !.total_sales = ts, !.net_sales = ns,
                      ![f] = diff, !.cash_payments = @ + ts, !.nulls = nulls]

Candidates ==
    UNION {{Candidate(ts, ns, diff, PaymentFields[i], nulls),
            SplitCandidate(ts, ns, diff, PaymentFields[i], nulls)} :
           ts \in CandidateTotals, ns \in {0, 10000},
           diff \in CandidateDiffs, i \in 1..Len(PaymentFields),
           nulls \in {{}, {"total_sales"}}}

InitValidate ==
    /\ closings = <<>>
    /\ budgets = <<>>
    /\ history = <<>>
    /\ resp = [op |-> "init", code |-> 0, body |-> "none"]
    /\ lastV = <<>>
    /\ cand \in Candidates
    /\ verdict = "none"
    /\ mail = "none"
    /\ inflight = <<>>

\* the validation block of upsert_closing, applied to the candidate
ValidateCandidate ==
    /\ verdict = "none"
    /\ verdict' = Validate(cand)
    /\ UNCHANGED <<closings, budgets, history, resp, lastV, cand, mail,
                 inflight>>

SpecValidate == InitValidate /\ [][ValidateCandidate]_vars

\* ------------------------------------------------------------------------
\* Submissions of a candidate set of fields next to a valid one
\* ------------------------------------------------------------------------
\* total sales ts, net sales ns, cash ts + over, the kitchen budget and the
\* cash float as given
SubmitCandidate(ts, ns, over, kitchen, float, nulls, nonfinite) ==
    [ZeroMoney EXCEPT !.total_sales = ts, !.net_sales = ns,
                      !.cash_payments = ts + over,
                      !.kitchen_budget = kitchen, !.cash_float = float,
                      !.nulls = nulls, !.nonfinite = nonfinite]

SubmitCandidates ==
    {SubmitCandidate(ts, ns, over, kitchen, float, nulls, nonfinite) :
        ts \in {10000, 20000}, ns \in {10000, 20000, 30000},
        over \in {0, 101}, kitchen \in {0, 6000, 40000}, float \in {0, -1},
        nulls \in {{}, {"net_sales"}, {"total_sales"}},
        nonfinite \in {{}, {"cash_float"}}}

SubmitKey == <<"S1", EmptyName, 0>>

InitSubmit ==
    /\ closings = <<>>
    /\ budgets = <<>>
    /\ history = <<>>
    /\ resp = [op |-> "init", code |-> 0, body |-> "none"]
    /\ lastV = <<>>
    /\ cand \in SubmitCandidates
    /\ verdict = "none"
    /\ mail = "none"
    /\ inflight = <<>>

NextSubmit ==
    \/ UpsertClosingOn({SubmitKey}, {cand, PayloadA})
    \/ UnlockClosingOn(ExistingClosings, {ManagerPin})
    \/ PatchClosingOn(ExistingClosings, PatchInputs)
    \/ VerifyClosingOn(ExistingClosings, Statuses)

SpecSubmit == InitSubmit /\ [][NextSubmit]_vars

\* ------------------------------------------------------------------------
\* Submissions that name a store next to the store id
\* ------------------------------------------------------------------------
\* store S2 by id alone, store S1 by id alone, and store S2 by id together
\* with the display name of store S1
IdentityKeyInputs ==
    {<<"S1", EmptyName, 0>>, <<"S2", EmptyName, 0>>,
     <<"S2", StoreDisplayName("S1"), 0>>}

NextIdentity ==
    \/ UpsertClosingOn(IdentityKeyInputs, ValidPayloads)
    \/ UnlockClosingOn(ExistingClosings, {ManagerPin})
    \/ PatchClosingOn(ExistingClosings, PatchInputs)
    \/ VerifyClosingOn(ExistingClosings, Statuses)

SpecIdentity == Init /\ [][NextIdentity]_vars

\* ------------------------------------------------------------------------
\* Weekly budgets of past, current and coming weeks
\* ------------------------------------------------------------------------
\* the Monday of last week, of this week and of next week, and a Thursday
WeekInputs == {-7, 0, 3, 7}

SmallerAmount == <<5000, 1000>>

NextWeeks ==
    \/ UpsertClosingOn({SubmitKey}, {PayloadA})
    \/ VerifyClosingOn(ExistingClosings, Statuses)
    \/ UpsertWeeklyBudgetOn({"S1"}, WeekInputs, {DraftAmount, SmallerAmount})
    \/ LockWeeklyBudgetOn({0, 1}, {"S1"}, WeekInputs \ {-7},
                          {<<>>, LockOverride}, {FALSE})

SpecWeeks == Init /\ [][NextWeeks]_vars

\* ------------------------------------------------------------------------
\* Requests during which the mail delivery or the record store may fail
\* ------------------------------------------------------------------------
UpsertClosingWithOn(Keys, Pays, Deliveries) ==
    \E k \in Keys, p \in Pays, delivery_fails \in Deliveries :
        upsert_closing_with(k[1], k[2], k[3], p, delivery_fails)

VerifyClosingWithOn(Rids, Sts, Fs, Deliveries) ==
    /\ \E rid \in Rids, status \in Sts, fault \in Fs,
          delivery_fails \in Deliveries :
           verify_closing_with(rid, status, fault, delivery_fails)
    /\ \A i \in 1..Len(budgets') :
          /\ budgets'[i].deducted <= MaxDrift
          /\ budgets'[i].remaining <= MaxDrift
          /\ budgets'[i].remaining >= -MaxDrift

NextFaults ==
    \/ UpsertClosingWithOn({SubmitKey}, ValidPayloads, BOOLEAN)
    \/ UnlockClosingOn(ExistingClosings, {ManagerPin})
    \/ VerifyClosingWithOn(ExistingClosings, Statuses, Faults, BOOLEAN)
    \/ UpsertWeeklyBudgetOn({"S1"}, {0}, {DraftAmount})
    \/ LockWeeklyBudgetOn({0}, {"S1"}, {0}, {<<>>}, {FALSE})

SpecFaults == Init /\ [][NextFaults]_vars

\* ------------------------------------------------------------------------
\* SpecStatus: verifications with each status a closing can carry
\* ------------------------------------------------------------------------
StatusInputs == {"Verified", "Needs Update", "Pending"}

NextStatus ==
    \/ UpsertClosingOn(BudgetKeyInputs, {PayloadA})
    \/ UnlockClosingOn(ExistingClosings, {ManagerPin})
    \/ VerifyClosingWithOn(ExistingClosings, StatusInputs, Faults, {FALSE})
    \/ UpsertWeeklyBudgetOn({"S1"}, {0}, {DraftAmount})
    \/ LockWeeklyBudgetOn({0}, {"S1"}, {0}, {<<>>}, {FALSE})

SpecStatus == Init /\ [][NextStatus]_vars

\* ------------------------------------------------------------------------
\* SpecVerifyRace: Verify(Verified) requests served by different workers.
\* A request is a sequence of calls to the record store; between two calls
\* of one request the calls of another request can be served.  The closings
\* and the weekly budget are set up before the first request starts.
\* ------------------------------------------------------------------------
\* a worker that serves no request
Idle == [pc |-> "idle"]

\* no request has started yet
NoneStarted == \A w \in DOMAIN inflight : inflight[w].pc = "idle"

\* every worker has served its request
AllDone == \A w \in DOMAIN inflight : inflight[w].pc = "done"

\* the weekly budget rows when the first of the requests started
RaceBase ==
    IF NoneStarted THEN budgets
    ELSE LET w == CHOOSE x \in DOMAIN inflight : inflight[x].pc # "idle"
         IN inflight[w].base

\* before = table.get(record_id)
verify_get(w, rid) ==
    /\ inflight[w].pc = "idle"
    /\ \A x \in DOMAIN inflight :
          inflight[x].pc # "idle" => inflight[x].record_id # rid
    /\ inflight' = [inflight EXCEPT ![w] =
           [pc |-> "update", record_id |-> rid,
            prev_food_deducted |-> closings[rid].anchor,
            fields |-> closings[rid], budget_id |-> 0,
            budget_record |-> <<>>, delta |-> 0, base |-> RaceBase]]
    /\ UNCHANGED <<closings, budgets, history, resp, lastV, cand, verdict,
                   mail>>

\* table.update(record_id, update_fields)
verify_update(w) ==
    /\ inflight[w].pc = "update"
    /\ closings' = [closings EXCEPT ![inflight[w].record_id] =
                        VerifiedFields(@, "Verified")]
    /\ inflight' = [inflight EXCEPT ![w].pc = "refetch"]
    /\ UNCHANGED <<budgets, history, resp, lastV, cand, verdict, mail>>

\* fresh = table.get(record_id)
verify_refetch(w) ==
    /\ inflight[w].pc = "refetch"
    /\ inflight' = [inflight EXCEPT ![w].pc = "lookup",
                                    ![w].fields = closings[inflight[w].record_id]]
    /\ UNCHANGED <<closings, budgets, history, resp, lastV, cand, verdict,
                   mail>>

\* get_locked_weekly_budget_record(fields), and the two bare returns
verify_lookup(w) ==
    /\ inflight[w].pc = "lookup"
    /\ LET r == inflight[w]
           bid == get_locked_weekly_budget_record(r.fields)
           delta == food_spend_from_fields(r.fields.m) - r.prev_food_deducted
       IN IF bid = 0 \/ delta = 0
          THEN /\ inflight' = [inflight EXCEPT ![w].pc = "done"]
               /\ resp' = Response("verify", 200, r.record_id, "null")
          ELSE /\ inflight' = [inflight EXCEPT ![w].pc = "budget_write",
                                               ![w].budget_id = bid,
                                               ![w].budget_record = <<budgets[bid]>>,
                                               ![w].delta = delta]
               /\ resp' = resp
    /\ UNCHANGED <<closings, budgets, history, lastV, cand, verdict, mail>>

\* budget_table.update(budget_record["id"], ...): the figures written are
\* computed from the row the lookup returned
verify_budget_write(w) ==
    /\ inflight[w].pc = "budget_write"
    /\ LET r == inflight[w]
           written == ApplyDelta(r.budget_record[1], r.delta)
       IN budgets' = [budgets EXCEPT
                        ![r.budget_id].remaining = written.remaining,
                        ![r.budget_id].deducted = written.deducted]
    /\ inflight' = [inflight EXCEPT ![w].pc = "anchor_write"]
    /\ UNCHANGED <<closings, history, resp, lastV, cand, verdict, mail>>

\* table.update(record_id, {"Food Cost Deducted": new_food_spend}), the
\* notification and the answer
verify_anchor_write(w) ==
    /\ inflight[w].pc = "anchor_write"
    /\ LET r == inflight[w]
       IN /\ closings' = [closings EXCEPT ![r.record_id].anchor =
                              food_spend_from_fields(r.fields.m)]
          /\ resp' = Response("verify", 200, r.record_id, "Verified")
    /\ inflight' = [inflight EXCEPT ![w].pc = "done"]
    /\ mail' = "sent"
    /\ UNCHANGED <<budgets, history, lastV, cand, verdict>>

RaceKeyInputs == {<<"S1", EmptyName, 0>>, <<"S1", EmptyName, 1>>}

InitRace ==
    /\ closings = <<>>
    /\ budgets = <<>>
    /\ history = <<>>
    /\ resp = [op |-> "init", code |-> 0, body |-> "none"]
    /\ lastV = <<>>
    /\ cand = ZeroMoney
    /\ verdict = "none"
    /\ mail = "none"
    /\ inflight = [w \in 1..NumWorkers |-> Idle]

SetUp ==
    /\ NoneStarted
    /\ \/ UpsertClosingOn(RaceKeyInputs, ValidPayloads)
       \/ UpsertWeeklyBudgetOn({"S1"}, {0}, {DraftAmount})
       \/ LockWeeklyBudgetOn({0}, {"S1"}, {0}, {<<>>}, {FALSE})

NextVerifyRace ==
    \/ SetUp
    \/ \E w \in 1..NumWorkers, rid \in ExistingClosings : verify_get(w, rid)
    \/ \E w \in 1..NumWorkers : verify_update(w)
    \/ \E w \in 1..NumWorkers : verify_refetch(w)
    \/ \E w \in 1..NumWorkers : verify_lookup(w)
    \/ \E w \in 1..NumWorkers : verify_budget_write(w)
    \/ \E w \in 1..NumWorkers : verify_anchor_write(w)

SpecVerifyRace == InitRace /\ [][NextVerifyRace]_vars

\* ------------------------------------------------------------------------
\* SpecUpsertRace: Upsert requests served by different workers.  A request
\* first selects the existing record of its key, then creates or updates.
\* ------------------------------------------------------------------------
\* the validation and the loop over the day's records that selects
\* `existing`
upsert_find(w, k, p) ==
    /\ inflight[w].pc = "idle"
    /\ inflight' = [inflight EXCEPT ![w] =
           [pc |-> "write", key |-> k, fields |-> p,
            existing |-> FindExisting(k[1], ResolvedStoreName(k[1], k[2]), k[3])]]
    /\ UNCHANGED <<closings, budgets, history, resp, lastV, cand, verdict,
                   mail>>

\* a request that looks for the existing record again when it writes
upsert_write_Refinds(w) ==
    /\ inflight[w].pc = "write"
    /\ LET r == inflight[w] IN
       upsert_closing_found(r.key[1], ResolvedStoreName(r.key[1], r.key[2]),
                            FindExisting(r.key[1],
                                ResolvedStoreName(r.key[1], r.key[2]), r.key[3]),
                            r.key[3], r.fields, FALSE)
    /\ inflight' = [inflight EXCEPT ![w].pc = "done"]
    /\ UNCHANGED mail

\* the rest of the handler: the lock check and the update of `existing`,
\* or table.create when the find step selected nothing
upsert_write(w) ==
    /\ inflight[w].pc = "write"
    /\ LET r == inflight[w] IN
       upsert_closing_found(r.key[1], ResolvedStoreName(r.key[1], r.key[2]),
                            r.existing, r.key[3], r.fields, FALSE)
    /\ inflight' = [inflight EXCEPT ![w].pc = "done"]
    /\ UNCHANGED mail

NextUpsertRace ==
    \/ \E w \in 1..NumWorkers, k \in RaceKeyInputs, p \in ValidPayloads :
          upsert_find(w, k, p)
    \/ \E w \in 1..NumWorkers : upsert_write(w)

SpecUpsertRace == InitRace /\ [][NextUpsertRace]_vars

\* ------------------------------------------------------------------------
\* SpecLockById: weekly budgets locked through their budget_id, with and
\* without a store_id in the payload
\* ------------------------------------------------------------------------
NextLockById ==
    \/ UpsertClosingOn({SubmitKey}, ValidPayloads)
    \/ UnlockClosingOn(ExistingClosings, {ManagerPin})
    \/ VerifyClosingOn(ExistingClosings, Statuses)
    \/ UpsertWeeklyBudgetOn({"S1"}, {0, 7}, {DraftAmount})
    \/ LockWeeklyBudgetOn({0, 1, 2}, {"S1", NoStore}, {0, 7}, {<<>>}, {FALSE})

SpecLockById == Init /\ [][NextLockById]_vars

\* ------------------------------------------------------------------------
\* SpecDraft: draft budgets created and edited with any kitchen and bar
\* amounts the handler accepts (it checks no sign), next to verifications
\* ------------------------------------------------------------------------
NegativeAmount == <<-5000, 1000>>

NextDraft ==
    \/ UpsertClosingOn({SubmitKey}, {PayloadA})
    \/ VerifyClosingOn(ExistingClosings, Statuses)
    \/ UpsertWeeklyBudgetOn({"S1"}, {0, 7},
                            {DraftAmount, SmallerAmount, NegativeAmount})
    \/ LockWeeklyBudgetOn({0}, {"S1"}, {0}, {<<>>}, {FALSE})

SpecDraft == Init /\ [][NextDraft]_vars

\* ------------------------------------------------------------------------
\* SpecPins: _constant_time_equal applied to pairs of PINs
\* ------------------------------------------------------------------------
PinAlphabet == {"1", "2", "3"}

RECURSIVE PinsOfLen(_)
PinsOfLen(n) ==
    IF n = 0 THEN {<<>>}
    ELSE {Append(s, c) : s \in PinsOfLen(n - 1), c \in PinAlphabet}

Pins == UNION {PinsOfLen(n) : n \in 0..MaxPinLen}

InitPins ==
    /\ closings = <<>>
    /\ budgets = <<>>
    /\ history = <<>>
    /\ resp = [op |-> "init", code |-> 0, body |-> "none"]
    /\ lastV = <<>>
    /\ cand \in Pins \X Pins
    /\ verdict = "none"
    /\ mail = "none"
    /\ inflight = <<>>

\* one call _constant_time_equal(incoming_pin, manager_pin); the verdict
\* is the pair of the value returned and the positions examined
ComparePins ==
    /\ verdict = "none"
    /\ verdict' = <<_constant_time_equal(cand[1], cand[2]),
                    PositionsCompared(cand[1], cand[2])>>
    /\ UNCHANGED <<closings, budgets, history, resp, lastV, cand, mail,
                   inflight>>

SpecPins == InitPins /\ [][ComparePins]_vars

\* ------------------------------------------------------------------------
\* Store names put through normalize_store_value
\* ------------------------------------------------------------------------
NameAlphabet == {"B", "o", " ", "'", "RSQ", "LSQ"}

RECURSIVE NamesOfLen(_)
NamesOfLen(n) ==
    IF n = 0 THEN {<<>>}
    ELSE {Append(s, c) : s \in NamesOfLen(n - 1), c \in NameAlphabet}

Names == UNION {NamesOfLen(n) : n \in 0..MaxNameLen}

\* the candidate is a store name, the verdict its join key
InitNormalize ==
    /\ closings = <<>>
    /\ budgets = <<>>
    /\ history = <<>>
    /\ resp = [op |-> "init", code |-> 0, body |-> "none"]
    /\ lastV = <<>>
    /\ cand \in Names
    /\ verdict = "none"
    /\ mail = "none"
    /\ inflight = <<>>

NormalizeName ==
    /\ verdict = "none"
    /\ verdict' = normalize_store_value(cand)
    /\ UNCHANGED <<closings, budgets, history, resp, lastV, cand, mail,
                 inflight>>

SpecNormalize == InitNormalize /\ [][NormalizeName]_vars

\* ========================================================================
\* Properties
\* ========================================================================
\* the record an upsert for (sid, d) without a store name selects
Stored(sid, d) == FindExisting(sid, ResolvedStoreName(sid, EmptyName), d)

LockedAgainstUpsert(i) ==
    /\ i # 0
    /\ closings[i].lock = "Locked"
    /\ closings[i].verified # "Needs Update"

FrameOfRejection ==
    closings' = closings /\ history' = history /\ budgets' = budgets

C2_Resubmission ==
    [][\A k \in KeyInputs, p \in ValidPayloads :
          LET i == Stored(k[1], k[3]) IN
          (/\ resp'.op = "upsert"
           /\ i # 0
           /\ closings[i].verified = "Needs Update"
           /\ upsert_closing(k[1], k[2], k[3], p))
          => /\ resp'.code = 200
             /\ closings'[i].verified = "Pending"
             /\ closings'[i].verified_at = FALSE
             /\ closings'[i].anchor = 0
             /\ closings'[i].lock = "Locked"
             /\ closings'[i].m = p]_vars

\* a closing was created, sent back and has just been resubmitted
C2_Witness ==
    /\ resp.op = "upsert" /\ resp.code = 200 /\ resp.body = "updated_locked"
    /\ \E i \in 1..Len(closings) :
          /\ closings[i].verified = "Pending"
          /\ closings[i].lock = "Locked"
          /\ history[Len(history)] = HistoryEntry("Updated", i, "Locked")

\* C3: a Verify(Verified) of a closing whose row is as its previous
\* Verify(Verified) left it leaves the remaining budget and the deducted
\* food cost of every weekly budget as they were.
C3_IdempotentReverification ==
    [][\A rid \in 1..Len(closings) :
          (verify_closing(rid, "Verified") /\ lastV[rid].untouched)
          => \A b \in 1..Len(budgets) :
                /\ budgets'[b].remaining = budgets[b].remaining
                /\ budgets'[b].deducted = budgets[b].deducted]_vars

\* C4: when a closing that was not Verified, of food spend S > 0 and with a
\* Locked weekly budget for its store and week, is verified as Verified and
\* then, untouched, as Needs Update, that budget's remaining budget is back
\* at its value before the first verification, its deducted food cost is S
\* less than after the first verification, and the closing's anchor is 0.
C4_ReversalCorrectness ==
    [][\A rid \in 1..Len(closings) :
          (/\ verify_closing(rid, "Needs Update")
           /\ lastV[rid].untouched
           /\ lastV[rid].before # <<>>)
          => LET b == OwnBudget(closings[rid])
                 S == food_spend_from_fields(closings[rid].m)
             IN /\ b # 0
                /\ budgets'[b].remaining = lastV[rid].before[1]
                /\ budgets'[b].deducted = budgets[b].deducted - S
                /\ closings'[rid].anchor = 0]_vars

\* C5: a Verify(Verified) of a closing that was verified with food spend A,
\* has stayed Verified, and now has food spend B, while its store and week
\* have a Locked weekly budget, adds B - A to that budget's deducted food
\* cost, takes B - A from its remaining budget, and sets the anchor to B.
C5_DeltaCorrectness ==
    [][\A rid \in 1..Len(closings) :
          LET b == OwnBudget(closings[rid])
              A == lastV[rid].spend
              B == food_spend_from_fields(closings[rid].m)
          IN (/\ verify_closing(rid, "Verified")
              /\ A >= 0 /\ B # A /\ b # 0)
             => /\ budgets'[b].deducted = budgets[b].deducted + (B - A)
                /\ budgets'[b].remaining = budgets[b].remaining - (B - A)
                /\ closings'[rid].anchor = B]_vars

\* the closings of a weekly budget's store and week
ClosingsOf(b) ==
    {i \in 1..Len(closings) :
        b.store \in closings[i].store /\ InWeek(closings[i].date, b.week_start)}

RECURSIVE VerifiedSpendOf(_)
\* the food spends of the latest Verified verifications of a set of closings
VerifiedSpendOf(ids) ==
    IF ids = {} THEN 0
    ELSE LET i == CHOOSE x \in ids : TRUE
         IN (IF lastV[i].spend >= 0 THEN lastV[i].spend ELSE 0)
            + VerifiedSpendOf(ids \ {i})

\* C6: the deducted food cost of every Locked weekly budget is the sum, over
\* the closings of its store and week, of the food spend each closing had at
\* its most recent Verified verification: each closing counts once.
C6_NoDoubleCounting ==
    \A b \in 1..Len(budgets) :
        budgets[b].status = "Locked"
        => budgets[b].deducted = VerifiedSpendOf(ClosingsOf(budgets[b]))

\* the Verified closings of a store in the week that starts on ws
VerifiedInWeek(sid, ws) ==
    {i \in 1..Len(closings) :
        /\ closings[i].store = {sid}
        /\ closings[i].date \in ws..(ws + 6)
        /\ closings[i].verified = "Verified"}

\* C7: a LockWeeklyBudget for (store, week_start) that locks the Draft
\* budget sets its deducted food cost to the sum of kitchen + bar over
\* exactly the Verified closings of that store in that Monday..Sunday week,
\* and its remaining budget to max(0, total budget - that sum).
C7_LockRecompute ==
    [][\A sid \in Stores, ws \in {0}, ov \in {<<>>, LockOverride}, f \in BOOLEAN :
          LET b == FirstOf(BudgetMatches(sid, ws))
              total == IF ov = <<>> THEN budgets[b].kitchen + budgets[b].bar
                       ELSE ov[1] + ov[2]
              sum == SpendOf(VerifiedInWeek(sid, ws))
          IN (/\ lock_weekly_budget(0, sid, ws, ov, f)
              /\ b # 0
              /\ budgets[b].status = "Draft")
             => /\ budgets'[b].status = "Locked"
                /\ budgets'[b].deducted = sum
                /\ budgets'[b].remaining = Max(0, total - sum)]_vars

\* the payments of the candidate less its total sales
CandidateDifference ==
    SumSeq([i \in 1..Len(PaymentFields) |-> cand[PaymentFields[i]]])
    - cand.total_sales

CandidateOtherwiseValid ==
    /\ \A k \in MoneyFields : cand[k] >= 0
    /\ cand.net_sales <= cand.total_sales
    /\ cand.kitchen_budget + cand.bar_budget + cand.non_food_budget
          + cand.staff_meal_budget <= cand.net_sales

\* C10: for a closing that states its total sales, validation rejects
\* whenever the payments differ from the total sales by more than 1.00 (100
\* minor units), rejects for the payments only then, and accepts a closing
\* that passes the other rules when the difference is at most 1.00,
\* whatever the size of the total sales.
C10_PaymentSumTolerance ==
    (verdict # "none" /\ cand.nulls = {})
    => /\ (Abs(CandidateDifference) > 100 => verdict # "ok")
       /\ (verdict = "payments_mismatch" => Abs(CandidateDifference) > 100)
       /\ (Abs(CandidateDifference) <= 100 /\ CandidateOtherwiseValid
             => verdict = "ok")

\* a closing with total sales of 10000.00 and payments 1.00 above them has
\* been accepted
C10_Witness ==
    /\ verdict = "ok"
    /\ cand.nulls = {}
    /\ cand.total_sales = 1000000
    /\ CandidateDifference = 100

C9_UnlockIdempotent ==
    [][\A rid \in 1..Len(closings) :
          (/\ resp'.op = "unlock"
           /\ closings[rid].lock = "Unlocked"
           /\ unlock_closing(rid, ManagerPin))
          => /\ resp'.code = 200
             /\ closings'[rid].lock = "Unlocked"
             /\ closings'[rid].verified = closings[rid].verified
             /\ closings'[rid].anchor = closings[rid].anchor]_vars

\* a closing has been unlocked twice in a row
C9_Witness ==
    /\ resp.op = "unlock" /\ resp.code = 200
    /\ \E n \in 2..Len(history) :
          /\ history[n].action = "Unlocked"
          /\ history[n - 1].action = "Unlocked"
          /\ history[n].record_id = history[n - 1].record_id
          /\ closings[history[n].record_id].lock = "Unlocked"

\* ------------------------------------------------------------------------
\* C11: a submission whose net sales exceed its total sales, both present,
\* is rejected with a validation error whatever its other fields hold, and
\* nothing is written.
\* ------------------------------------------------------------------------
NetExceedsTotal(p) ==
    /\ ~IsNone(p, "total_sales") /\ ~IsNone(p, "net_sales")
    /\ p.net_sales > p.total_sales

C11_NetSalesBound ==
    [][resp'.op = "upsert" /\ NetExceedsTotal(cand)
       /\ upsert_closing(SubmitKey[1], SubmitKey[2], SubmitKey[3], cand)
       => /\ resp'.code = 400
          /\ FrameOfRejection]_vars

\* an unlocked closing of the key is stored, and the candidate, which
\* breaks no other rule, has just been refused
C11_Witness ==
    /\ NetExceedsTotal(cand)
    /\ Validate_NoNetRule(cand) = "ok"
    /\ resp.op = "upsert" /\ resp.code = 400
    /\ Stored(SubmitKey[1], SubmitKey[3]) # 0
    /\ closings[Stored(SubmitKey[1], SubmitKey[3])].lock = "Unlocked"

\* ------------------------------------------------------------------------
\* C12: a submission or a patch that fails a validation rule (a negative
\* or non-finite field, net sales above total sales, payments off by more
\* than one unit, budget allocations above net sales) leaves closings,
\* history and budgets as they were.
\* ------------------------------------------------------------------------
BreaksARule(p) ==
    \/ \E k \in MoneyFields :
          ~IsNone(p, k) /\ (IsNonFinite(p, k) \/ p[k] < 0)
    \/ NetExceedsTotal(p)
    \/ /\ ~IsNone(p, "total_sales")
       /\ Abs(payments_sum(p) - p.total_sales) > CurrencyUnit
    \/ /\ ~IsNone(p, "net_sales")
       /\ budget_total(p) > p.net_sales

C12_NoPartialApplication ==
    [][/\ resp'.op = "upsert" /\ BreaksARule(cand)
          /\ upsert_closing(SubmitKey[1], SubmitKey[2], SubmitKey[3], cand)
          => FrameOfRejection
       /\ resp'.op = "patch" /\ resp'.code # 200
          => FrameOfRejection]_vars

\* an unlocked closing of the key is stored and the candidate, whose only
\* fault is its budget allocations, has just been refused
C12_Witness ==
    /\ Validate(cand) = "budget_exceeds_net"
    /\ resp.op = "upsert" /\ resp.code = 400
    /\ Stored(SubmitKey[1], SubmitKey[3]) # 0
    /\ closings[Stored(SubmitKey[1], SubmitKey[3])].lock = "Unlocked"
    /\ closings[Stored(SubmitKey[1], SubmitKey[3])].m # cand

\* ------------------------------------------------------------------------
\* C13: at most one closing is stored for a (store_id, business_date),
\* whatever sequence of Upsert, Unlock, Verify and Patch has run.
\* ------------------------------------------------------------------------
C13_ClosingUniqueness ==
    \A i, j \in 1..Len(closings) :
       (i # j /\ closings[i].date = closings[j].date)
          => closings[i].store \cap closings[j].store = {}

\* ------------------------------------------------------------------------
\* C20: when an Upsert supplies store_id, the existing record it selects
\* has that store_id among its linked store ids.
\* ------------------------------------------------------------------------
C20_MatchPrecedence ==
    [][resp'.op = "upsert" =>
          \A k \in IdentityKeyInputs :
             LET existing ==
                    FindExisting(k[1], ResolvedStoreName(k[1], k[2]), k[3])
             IN (k[1] # NoStore /\ existing # 0) =>
                   \A p \in ValidPayloads :
                      upsert_closing(k[1], k[2], k[3], p)
                      => k[1] \in closings[existing].store]_vars

\* ------------------------------------------------------------------------
\* C14: a Patch (of at least one field) of a Locked closing is answered 403
\* and leaves the closing and the history as they were.
\* ------------------------------------------------------------------------
C14_PatchLocked ==
    [][resp'.op = "patch" =>
          \A rid \in 1..Len(closings), updates \in PatchInputs \ {{}} :
             (closings[rid].lock = "Locked" /\ patch_closing(rid, updates))
                => /\ resp'.code = 403
                   /\ closings' = closings /\ history' = history]_vars

\* ------------------------------------------------------------------------
\* C15: UpsertWeeklyBudget is answered 400 when week_start is not a Monday,
\* and 403 when week_start lies before the Monday of the current week or
\* the budget of that store and week is Locked; in each case no budget is
\* created or modified.
\* ------------------------------------------------------------------------
HasLockedBudget(sid, ws) ==
    \E i \in 1..Len(budgets) :
       /\ budgets[i].store = sid /\ budgets[i].week_start = ws
       /\ budgets[i].status = "Locked"

C15_BudgetEditGuards ==
    [][resp'.op = "budget_upsert" =>
          \A ws \in WeekInputs, kb \in {DraftAmount, SmallerAmount} :
             upsert_weekly_budget("S1", ws, kb[1], kb[2])
             => /\ ws % 7 # 0
                   => resp'.code = 400 /\ budgets' = budgets
                /\ (ws % 7 = 0 /\ (ws < Today - (Today % 7)
                                     \/ HasLockedBudget("S1", ws)))
                   => resp'.code = 403 /\ budgets' = budgets]_vars

\* a Locked budget of the current week stands as it was locked, and an
\* edit with other amounts has just been refused
C15_Witness ==
    /\ resp.op = "budget_upsert" /\ resp.code = 403
    /\ HasLockedBudget("S1", 0)
    /\ \A i \in 1..Len(budgets) :
          budgets[i].week_start = 0 => budgets[i].amount = SmallerAmount[1] + SmallerAmount[2]

\* ------------------------------------------------------------------------
\* C16: LockWeeklyBudget on a budget that is Locked already succeeds,
\* writes nothing and returns the stored weekly_budget_amount,
\* remaining_budget and food_cost_deducted.
\* ------------------------------------------------------------------------
\* the budget a lock request addresses (0 when none)
LockTarget(budget_id, sid, ws) ==
    IF budget_id # 0
    THEN (IF budget_id <= Len(budgets) THEN budget_id ELSE 0)
    ELSE IF \E i \in 1..Len(budgets) :
               budgets[i].store = sid /\ budgets[i].week_start = ws
    THEN CHOOSE i \in 1..Len(budgets) :
            budgets[i].store = sid /\ budgets[i].week_start = ws
    ELSE 0

C16_LockIdempotent ==
    [][resp'.op = "budget_lock" =>
          \A budget_id \in {0, 1}, ws \in {0, 7},
             override \in {<<>>, LockOverride} :
             LET target == LockTarget(budget_id, "S1", ws) IN
             (/\ target # 0
              /\ budgets[target].status = "Locked"
              /\ lock_weekly_budget(budget_id, "S1", ws, override, FALSE))
             => /\ resp'.code = 200
                /\ resp'.body = "already_locked"
                /\ budgets' = budgets
                /\ resp'.weekly_budget = budgets[target].amount
                /\ resp'.remaining_budget = budgets[target].remaining
                /\ resp'.food_cost_deducted = budgets[target].deducted]_vars

\* a Locked budget that has deductions and was locked from its draft
\* amounts has just answered a lock request
C16_Witness ==
    /\ resp.op = "budget_lock" /\ resp.body = "already_locked"
    /\ resp.food_cost_deducted > 0
    /\ resp.weekly_budget = DraftAmount[1] + DraftAmount[2]

\* ------------------------------------------------------------------------
\* C17: every Verify that writes the status answers with a result that
\* carries the requested status as new_status, whether a Locked weekly
\* budget is present or absent and whether the delta is zero or not.
\* ------------------------------------------------------------------------
C17_VerifyResult ==
    [][resp'.op = "verify" =>
          \A rid \in 1..Len(closings), status \in Statuses :
             (verify_closing(rid, status) /\ closings'[rid].verified = status)
                => resp'.code = 200 /\ resp'.body = status]_vars

\* ------------------------------------------------------------------------
\* C18: a notification that fails is absorbed: an Upsert or a Verify whose
\* notification fails stores the same closing, history and budgets and
\* returns the same result as it does when the notification succeeds.
\* ------------------------------------------------------------------------
C18_NotificationAbsorbed ==
    [][/\ resp'.op = "upsert" =>
             \A p \in ValidPayloads :
                upsert_closing_with(SubmitKey[1], SubmitKey[2], SubmitKey[3],
                                    p, TRUE)
                => upsert_closing_core(SubmitKey[1], SubmitKey[2],
                                       SubmitKey[3], p, FALSE)
       /\ resp'.op = "verify" =>
             \A rid \in ExistingClosings, status \in Statuses,
                fault \in Faults :
                verify_closing_with(rid, status, fault, TRUE)
                => verify_closing_core(rid, status, fault, FALSE)]_vars

\* the first submission has been stored and answered although the delivery
\* of its notification failed
C18_Witness ==
    /\ mail = "failed"
    /\ resp.op = "upsert" /\ resp.body = "created_locked"
    /\ Len(closings) = 1 /\ Len(history) = 1

\* ------------------------------------------------------------------------
\* C19: a reconciliation that fails does not take the verification back:
\* when the read or a write of the budget reconciliation fails during
\* Verify, the closing ends with the requested verified status and the
\* matching lock status, and Verify reports success.
\* ------------------------------------------------------------------------
C19_ReconciliationFailureKept ==
    [][resp'.op = "verify" =>
          \A rid \in ExistingClosings, status \in Statuses,
             fault \in Faults \ {"none"}, delivery_fails \in BOOLEAN :
             verify_closing_with(rid, status, fault, delivery_fails)
             => /\ resp'.code = 200
                /\ closings'[rid].verified = status
                /\ closings'[rid].lock =
                      (IF status = "Verified" THEN "Locked" ELSE "Unlocked")]_vars

\* closing 1 has just been verified with success next to a Locked budget
\* that should have been charged and was not
C19_Witness ==
    /\ resp.op = "verify" /\ resp.code = 200 /\ resp.body = "Verified"
    /\ Len(closings) = 1 /\ Len(budgets) = 1
    /\ closings[1].verified = "Verified" /\ closings[1].lock = "Locked"
    /\ closings[1].anchor = 0
    /\ food_spend_from_fields(closings[1].m) > 0
    /\ budgets[1].status = "Locked" /\ budgets[1].deducted = 0

\* ------------------------------------------------------------------------
\* C21: normalization yields a stable join key: a name and its variants in
\* letter case, leading or trailing whitespace and apostrophe kind get the
\* same key, and normalizing a key returns it unchanged.
\* ------------------------------------------------------------------------
\* the name with every apostrophe written as q
WithApostrophe(s, q) == [i \in 1..Len(s) |-> IF IsApostrophe(s[i]) THEN q ELSE s[i]]

NameVariants(s) ==
    {LowerStr(s), <<" ">> \o s, s \o <<" ">>}
       \cup {WithApostrophe(s, q) : q \in {"'", "RSQ", "LSQ"}}

C21_StableJoinKey ==
    verdict # "none" =>
       /\ \A v \in NameVariants(cand) : normalize_store_value(v) = verdict
       /\ normalize_store_value(verdict) = verdict

\* ------------------------------------------------------------------------
\* C22: every Upsert, Unlock, Verify or Patch that succeeds appends one
\* HistoryEntry for the record it touched.
\* ------------------------------------------------------------------------
C22_HistoryAppended ==
    [][(resp'.op \in {"upsert", "unlock", "verify", "patch"}
        /\ resp'.code = 200)
       => /\ Len(history') = Len(history) + 1
          /\ SubSeq(history', 1, Len(history)) = history
          /\ history'[Len(history')].record_id \in 1..Len(closings')]_vars

\* ------------------------------------------------------------------------
\* C23: the original weekly budget amount of a Locked budget is the total
\* (kitchen + bar) that its first lock locked, whatever draft creation and
\* draft edits came before.  (A Locked budget keeps the amounts of its
\* first lock, so the total of the first lock is its kitchen + bar.)
\* ------------------------------------------------------------------------
C23_OriginalSetAtFirstLock ==
    \A i \in 1..Len(budgets) :
       budgets[i].status = "Locked"
          => budgets[i].original = budgets[i].kitchen + budgets[i].bar

\* ------------------------------------------------------------------------
\* C24: a Locked weekly budget is closed to direct edits.  Over every step,
\* a budget that is Locked stays Locked and keeps its store, week, kitchen
\* budget, bar budget and weekly budget amount; its food cost deducted and
\* remaining budget change only in a step of Verify.
\* ------------------------------------------------------------------------
C24_LockedBudgetClosed ==
    [][\A i \in 1..Len(budgets) :
          budgets[i].status = "Locked"
             => /\ i <= Len(budgets')
                /\ budgets'[i].status = "Locked"
                /\ budgets'[i].store = budgets[i].store
                /\ budgets'[i].week_start = budgets[i].week_start
                /\ budgets'[i].kitchen = budgets[i].kitchen
                /\ budgets'[i].bar = budgets[i].bar
                /\ budgets'[i].amount = budgets[i].amount
                /\ (\/ budgets'[i].deducted # budgets[i].deducted
                    \/ budgets'[i].remaining # budgets[i].remaining)
                      => resp'.op = "verify"]_vars

\* a Locked budget that a verification has charged has just refused an edit
C24_Witness ==
    /\ resp.op = "budget_upsert"
    /\ resp.code = 403
    /\ \E i \in 1..Len(budgets) :
          /\ budgets[i].status = "Locked"
          /\ budgets[i].deducted > 0
          /\ budgets[i].week_start >= Today - (Today % 7)

\* ------------------------------------------------------------------------
\* C25: every answered Verify writes the requested status and couples the
\* lock to it: with the status Verified the closing is Locked and its
\* verified_at is set; with any other status (Needs Update, Pending) the
\* closing is Unlocked and its verified_at is cleared.  This holds whether
\* or not the reconciliation that follows the write fails.
\* ------------------------------------------------------------------------
C25_VerifyCouplesLock ==
    [][(resp'.op = "verify" /\ resp'.code = 200) =>
          \A rid \in 1..Len(closings), status \in StatusInputs,
             fault \in Faults :
             verify_closing_with(rid, status, fault, FALSE)
                => /\ closings'[rid].verified = status
                   /\ status = "Verified"
                        => /\ closings'[rid].lock = "Locked"
                           /\ closings'[rid].verified_at
                   /\ status # "Verified"
                        => /\ closings'[rid].lock = "Unlocked"
                           /\ ~closings'[rid].verified_at]_vars

\* a closing sent back as Pending after its verification had charged the
\* Locked weekly budget: it is Unlocked and the charge is reversed
C25_Witness ==
    /\ resp.op = "verify" /\ resp.body = "Pending"
    /\ \E i \in 1..Len(closings) :
          /\ closings[i].verified = "Pending"
          /\ closings[i].lock = "Unlocked"
          /\ ~closings[i].verified_at
          /\ lastV[i] = NeverVerified
    /\ \E j \in 1..Len(budgets) :
          budgets[j].status = "Locked" /\ budgets[j].deducted = 0

\* ------------------------------------------------------------------------
\* C26: a successful Unlock changes only the lock status and the unlocked-by
\* (and unlocked-at) stamp of its target: the target's verified status,
\* verified_at, anchor, money fields, store and date, every other closing
\* and every weekly budget stay as they were.
\* ------------------------------------------------------------------------
C26_UnlockOrthogonal ==
    [][(resp'.op = "unlock" /\ resp'.code = 200) =>
          /\ budgets' = budgets
          /\ \E rid \in 1..Len(closings) :
                closings' = [closings EXCEPT
                                ![rid].lock = "Unlocked",
                                ![rid].unlocked_by = closings'[rid].unlocked_by]
         ]_vars

\* a Verified closing that carries an anchor has just been unlocked, next
\* to another closing
C26_Witness ==
    /\ resp.op = "unlock" /\ resp.code = 200
    /\ Len(closings) = 2
    /\ \E i \in 1..Len(closings) :
          /\ closings[i].lock = "Unlocked"
          /\ closings[i].unlocked_by = "Manager PIN"
          /\ closings[i].verified = "Verified"
          /\ closings[i].verified_at
          /\ closings[i].anchor > 0

\* ------------------------------------------------------------------------
\* C27: when no Locked weekly budget exists for the closing's store and
\* week (no budget, or only a Draft), Verify with the status Verified still
\* makes the closing Verified and Locked and leaves every weekly budget and
\* the closing's anchor as they were.
\* ------------------------------------------------------------------------
C27_NoBudgetNoReconciliation ==
    [][resp'.op = "verify" =>
          \A rid \in 1..Len(closings) :
             (OwnBudget(closings[rid]) = 0 /\ verify_closing(rid, "Verified"))
                => /\ closings'[rid].verified = "Verified"
                   /\ closings'[rid].lock = "Locked"
                   /\ budgets' = budgets
                   /\ closings'[rid].anchor = closings[rid].anchor]_vars

RECURSIVE AnchorsOf(_)
\* the sum of the anchors of a set of closings
AnchorsOf(ids) ==
    IF ids = {} THEN 0
    ELSE LET i == CHOOSE x \in ids : TRUE
         IN closings[i].anchor + AnchorsOf(ids \ {i})

\* ------------------------------------------------------------------------
\* C28: anchor consistency.  In every reachable state the food cost deducted
\* of every Locked weekly budget is the sum of the anchors of the closings
\* of its store whose business date falls in its week.
\* ------------------------------------------------------------------------
C28_AnchorConsistency ==
    \A b \in 1..Len(budgets) :
        budgets[b].status = "Locked"
        => budgets[b].deducted = AnchorsOf(ClosingsOf(budgets[b]))

\* ------------------------------------------------------------------------
\* C29: budget balance.  In every reachable state every weekly budget has
\* remaining budget = weekly budget amount - food cost deducted, or 0 where
\* that difference is negative; the remaining budget never exceeds the
\* weekly budget amount.
\* ------------------------------------------------------------------------
C29_BudgetBalance ==
    \A b \in 1..Len(budgets) :
        /\ budgets[b].remaining = Max(0, budgets[b].amount - budgets[b].deducted)
        /\ budgets[b].remaining <= budgets[b].amount

\* ------------------------------------------------------------------------
\* C30: the running deduction is never negative.  In every reachable state
\* every weekly budget has food cost deducted >= 0.
\* ------------------------------------------------------------------------
C30_DeductedNonNegative ==
    \A b \in 1..Len(budgets) : budgets[b].deducted >= 0

RECURSIVE DeltasApplied(_, _)
\* the sum of the deltas that the requests of the workers W applied to the
\* weekly budget row b
DeltasApplied(W, b) ==
    IF W = {} THEN 0
    ELSE LET w == CHOOSE x \in W : TRUE
         IN (IF inflight[w].pc = "done" /\ inflight[w].budget_id = b
             THEN inflight[w].delta ELSE 0)
            + DeltasApplied(W \ {w}, b)

\* ------------------------------------------------------------------------
\* C31: no delta is lost.  When Verify(Verified) requests for different
\* closings of one store and week have run concurrently against one Locked
\* budget and all have completed, the budget's food cost deducted has grown
\* by the sum of their deltas and its remaining budget has shrunk by it.
\* ------------------------------------------------------------------------
C31_NoLostDelta ==
    (inflight # <<>> /\ AllDone) =>
        \A b \in 1..Len(budgets) :
           LET sum == DeltasApplied(DOMAIN inflight, b) IN
           /\ budgets[b].deducted = RaceBase[b].deducted + sum
           /\ budgets[b].remaining = RaceBase[b].remaining - sum

\* the workers whose request for the key k found no existing record and
\* has created one
CreatedBy(k) ==
    {w \in DOMAIN inflight :
        /\ inflight[w].pc = "done"
        /\ inflight[w].key = k
        /\ inflight[w].existing = 0}

\* ------------------------------------------------------------------------
\* C32: the find-then-create of Upsert is race-prone.  Every request that
\* performed its find step while no record of its (store, business date)
\* existed creates a record: when two requests for one key both find
\* nothing, the table ends with two closings of that key.
\* ------------------------------------------------------------------------
C32_BothCreate ==
    \A k \in RaceKeyInputs :
        Cardinality({i \in 1..Len(closings) :
                        k[1] \in closings[i].store /\ closings[i].date = k[3]})
           >= Cardinality(CreatedBy(k))

\* two requests for one key have both found nothing and both have written
C32_Witness ==
    /\ \E k \in RaceKeyInputs : Cardinality(CreatedBy(k)) = 2
    /\ Len(closings) = 2
    /\ closings[1].store = closings[2].store
    /\ closings[1].date = closings[2].date

\* ------------------------------------------------------------------------
\* C33: the budget delta and the closing anchor move together.  Whenever a
\* Verify with the status Verified has changed a weekly budget, the
\* closing's anchor is its new food spend when the Verify finishes, also
\* when a write to the record store fails part-way.
\* ------------------------------------------------------------------------
C33_DeltaAndAnchorTogether ==
    [][resp'.op = "verify" =>
          \A rid \in 1..Len(closings), fault \in Faults :
             (verify_closing_with(rid, "Verified", fault, FALSE)
                 /\ budgets' # budgets)
                => closings'[rid].anchor
                      = food_spend_from_fields(closings'[rid].m)]_vars

\* ------------------------------------------------------------------------
\* C34: Verify touches only the owning budget.  A Verify of a closing of
\* store S with business date D changes no weekly budget other than the
\* one of store S whose week starts on the Monday of D's week.
\* ------------------------------------------------------------------------
C34_OnlyOwningBudget ==
    [][resp'.op = "verify" =>
          \A rid \in 1..Len(closings), status \in Statuses :
             verify_closing(rid, status) =>
                \A b \in 1..Len(budgets) :
                   budgets'[b] # budgets[b]
                      => /\ budgets[b].store \in closings[rid].store
                         /\ budgets[b].week_start
                               = monday_of_week(closings[rid].date)]_vars

\* ------------------------------------------------------------------------
\* C35: LockWeeklyBudget addressed by budget_id alone gives what the lock by
\* (store_id, week_start) gives: locking a Draft budget through its
\* budget_id, without store_id, sets its food cost deducted to the sum of
\* kitchen + bar over the Verified closings of the budget's own store and
\* own week.
\* ------------------------------------------------------------------------
C35_LockByBudgetId ==
    [][resp'.op = "budget_lock" =>
          \A bid \in 1..Len(budgets) :
             (/\ budgets[bid].status = "Draft"
              /\ lock_weekly_budget(bid, NoStore, budgets[bid].week_start,
                                    <<>>, FALSE))
                => /\ budgets'[bid].status = "Locked"
                   /\ budgets'[bid].deducted
                         = SpendOf(VerifiedInWeek(budgets[bid].store,
                                                  budgets[bid].week_start))]_vars

\* the validation rules on a stored set of money fields, a field that is
\* not stored counting as 0
Consistent(m) ==
    /\ \A k \in MoneyFields : ~IsNonFinite(m, k) /\ OrZero(m, k) >= 0
    /\ OrZero(m, "net_sales") <= OrZero(m, "total_sales")
    /\ Abs(payments_sum(m) - OrZero(m, "total_sales")) <= CurrencyUnit
    /\ budget_total(m) <= OrZero(m, "net_sales")

\* ------------------------------------------------------------------------
\* C36: stored closings are always consistent.  In every reachable state
\* every stored closing satisfies the validation rules: all money fields
\* >= 0, net sales <= total sales, payment sum within one unit of total
\* sales, kitchen + bar + non-food + staff-meal budgets <= net sales.
\* ------------------------------------------------------------------------
C36_StoredClosingsConsistent ==
    \A i \in 1..Len(closings) : Consistent(closings[i].m)

\* ------------------------------------------------------------------------
\* C37: a Verified closing keeps the figures that were verified.  In every
\* reachable state a closing whose verified status is Verified has the
\* kitchen + bar spend it had at its last Verified verification.
\* ------------------------------------------------------------------------
C37_VerifiedFiguresKept ==
    \A i \in 1..Len(closings) :
        closings[i].verified = "Verified"
           => food_spend_from_fields(closings[i].m) = lastV[i].spend

\* ------------------------------------------------------------------------
\* C38: draft budgets carry no deduction.  In every reachable state every
\* weekly budget with the status Draft has food cost deducted 0 and
\* remaining budget = weekly budget amount = kitchen + bar weekly budget.
\* ------------------------------------------------------------------------
C38_DraftCarriesNoDeduction ==
    \A b \in 1..Len(budgets) :
        budgets[b].status = "Draft"
           => /\ budgets[b].deducted = 0
              /\ budgets[b].amount = budgets[b].kitchen + budgets[b].bar
              /\ budgets[b].remaining = budgets[b].amount

\* ------------------------------------------------------------------------
\* C39: the PIN comparison returns true exactly when the two strings are
\* identical; on a length mismatch it rejects before it compares any
\* character; for inputs of equal length it examines every character
\* position, wherever the first mismatch is and whatever the secret is.
\* ------------------------------------------------------------------------
C39_ConstantTimeEqual ==
    verdict # "none" =>
        /\ verdict[1] <=> (cand[1] = cand[2])
        /\ Len(cand[1]) # Len(cand[2])
              => ~verdict[1] /\ verdict[2] = 0
        /\ Len(cand[1]) = Len(cand[2])
              => verdict[2] = Len(cand[1])

\* two PINs of the longest length that differ in their first character
\* only have been compared
C39_Witness ==
    /\ verdict # "none"
    /\ Len(cand[1]) = MaxPinLen /\ Len(cand[2]) = MaxPinLen
    /\ cand[1][1] # cand[2][1]
    /\ Tail(cand[1]) = Tail(cand[2])
    /\ ~verdict[1]
    /\ verdict[2] = MaxPinLen

\* ------------------------------------------------------------------------
\* C40: the history log is append-only: every step leaves the rows that
\* were in the log where they were and as they were, so the log of every
\* reachable state extends the log of every earlier state.
\* ------------------------------------------------------------------------
C40_HistoryAppendOnly ==
    [][/\ Len(history') >= Len(history)
       /\ SubSeq(history', 1, Len(history)) = history]_vars

\* a closing was created and later unlocked: its Created row is still the
\* first row of the log, with an Unlocked row of the same closing after it
C40_Witness ==
    /\ Len(history) >= 2
    /\ history[1].action = "Created"
    /\ \E n \in 2..Len(history) :
          /\ history[n].action = "Unlocked"
          /\ history[n].record_id = history[1].record_id

====
